---------------------------- MODULE Spec2Model ----------------------------
(***************************************************************************)
(* Model of the Interview component (src/types.ts): the controller state   *)
(* machine, the streaming session of every interview attempt, transcript   *)
(* assembly and the playback scheduler; and, in the last part, of the     *)
(* request handlers of the Chatbot, the ResumeHelper and the creative      *)
(* tools.                                                                  *)
(*                                                                         *)
(* Texts are sequences of one-character strings.  An interview attempt is  *)
(* identified by its number (1 for the first validated startInterview);    *)
(* the audio contexts, the capture processor and the session promise an    *)
(* attempt creates carry the attempt's number, and 0 stands for null.      *)
(***************************************************************************)
EXTENDS Integers, Sequences, FiniteSets, TLC

\* ------------------------------------------------------------------ bounds
MaxAttempts == 2      \* validated startInterview calls
MaxMessages == 1      \* server messages delivered under Spec
MaxChunks   == 3      \* server messages delivered under SpecPlayback and
                      \* SpecSession
MaxTurns    == 3      \* server messages delivered under SpecTranscript
MaxClock    == 1      \* last value of an output context's currentTime
MaxEvents   == 2      \* server messages delivered under SpecCursor
MaxText     == 2      \* longest accumulator a further fragment is added to

Attempts == 1..MaxAttempts

\* ------------------------------------------------------------ input domains
\* what the user can type into the role and description fields
Fields == { <<" ">>, <<" ", "a">> }
\* text of a transcription fragment
Fragments == { <<" ">>, <<"a">> }
\* duration of a decoded audio buffer (0: the message carries no audio)
Durations == {1, 2}

VARIABLES
  \* React state of the component
  interviewState, error, transcripts, isTalking, jobRole, jobDescription,
  mounted,        \* FALSE once the component has been unmounted
  updateQueue,    \* setTranscripts updates not yet applied by a render
  \* refs
  sessionPromiseRef, audioContextRef, outputAudioContextRef, processorRef,
  currentInputTranscriptionRef, currentOutputTranscriptionRef,
  nextStartTimeRef, sourcesRef,
  \* the environment: attempts, sessions, devices
  attempts,       \* number of validated startInterview calls so far
  pc,             \* attempt -> position of its start sequence / session
  closeRequested, \* attempts whose promise carries a pending session.close()
  micStream,      \* attempt -> "none" | "live"
  inputCtx,       \* attempt -> "none" | "running" | "closed"
  outputCtx,      \* attempt -> "none" | "running" | "closed"
  processor,      \* attempt -> "none" | "connected" | "disconnected"
  currentTime,    \* attempt -> currentTime of its output context
  decoding,       \* handleLiveMessage invocations suspended at the await
  sources,        \* the started sources that neither ended nor were stopped
  delivered,      \* number of server messages delivered
  \* history
  endedAttempts,  \* attempts begun before an endInterview that has run
  lastEnd,        \* start + duration of the segment started last, while the
                  \* cursor has not been reset or raised to the clock since;
                  \* -1 otherwise
  interrupted,    \* an interruption was handled and no audio chunk has been
                  \* received since
  \* capture
  queuedSends,    \* attempts whose pending connect promise carries a
                  \* then(session => session.sendRealtimeInput(...))
  sendLog,        \* history: the positions a session was in when
                  \* sendRealtimeInput was invoked on it
  \* the session-open request
  closure,        \* attempt -> the jobRole and jobDescription its
                  \* startInterview invocation closed over
  systemInstruction, \* attempt -> config.systemInstruction of its
                  \* ai.live.connect call (<<>>: connect not called)
  \* history
  inputFragments, \* the inputTranscription texts received since the last
                  \* turn-complete marker or startInterview, in order
  outputFragments, \* the same for the outputTranscription texts
  failedChunks,   \* ids of the messages whose audio failed to decode
  \* the other tools: the state of the one tool component that is mounted
  activeTool,     \* "none" | "resume" | "imageGen" | "imageEdit" |
                  \* "videoGen" | "chat"
  isLoading,      \* the isLoading state of the mounted tool
  chat,           \* Chatbot: TRUE once the chat session has been created
  messages,       \* Chatbot: the message list
  input,          \* Chatbot: the text field
  resumeText, jdText,  \* ResumeHelper: the two text areas
  analysis,       \* ResumeHelper: "null" | "inputError" | "result" |
                  \* "parseError"
  prompt,         \* the prompt of the mounted creative tool
  imageFile,      \* ImageEditor: TRUE when a file is selected
  startImageFile, \* VideoGenerator: TRUE when a start image is selected
  resultUrl,      \* imageUrl / editedUrl / videoUrl of the mounted tool
  toolError,      \* the error state of the mounted creative tool
  apiKeySelected, \* VideoGenerator state
  keyCheck,       \* the mount-time hasSelectedApiKey() promise:
                  \* "none" | "pending" | "done"
  selecting,      \* number of pending openSelectKey() promises
  keyChosen,      \* history: a handleSelectKey has completed and no
                  \* generation has failed with the not-found message since
  call,           \* the service call of the running handler: "idle" |
                  \* "awaiting" | "resolved" | "rejected" | "streaming" |
                  \* "ended"
  outcome,        \* what the settled call carries
  fullText, allSources, \* the locals of sendMessage
  lastRun         \* history: parity of the number of handler invocations
                  \* and whether the last one found its input missing

vars == << interviewState, error, transcripts, isTalking, jobRole,
           jobDescription, mounted, updateQueue, sessionPromiseRef,
           audioContextRef, outputAudioContextRef, processorRef,
           currentInputTranscriptionRef, currentOutputTranscriptionRef,
           nextStartTimeRef, sourcesRef, attempts, pc, closeRequested,
           micStream, inputCtx, outputCtx, processor, currentTime, decoding,
           sources, delivered, endedAttempts, lastEnd, interrupted,
           queuedSends, sendLog, closure, systemInstruction,
           inputFragments, outputFragments, failedChunks,
           activeTool, isLoading, chat, messages, input, resumeText, jdText,
           analysis, prompt, imageFile, startImageFile, resultUrl, toolError,
           apiKeySelected, keyCheck, selecting, keyChosen, call, outcome,
           fullText, allSources, lastRun >>

reactVars == << interviewState, error, transcripts, isTalking, updateQueue >>
fieldVars == << jobRole, jobDescription >>
accVars   == << currentInputTranscriptionRef, currentOutputTranscriptionRef >>
deviceVars == << audioContextRef, outputAudioContextRef, processorRef,
                 inputCtx, outputCtx, processor >>
playVars  == << nextStartTimeRef, sourcesRef, sources, decoding, lastEnd,
                interrupted >>
captureVars == << queuedSends, sendLog >>
requestVars == << closure, systemInstruction >>
fragVars  == << inputFragments, outputFragments >>
auxVars   == << requestVars, fragVars, failedChunks >>
toolFields == << input, resumeText, jdText, prompt, imageFile,
                 startImageFile >>
toolOutputs == << messages, analysis, resultUrl, toolError >>
keyVars   == << apiKeySelected, keyCheck, selecting, keyChosen >>
callVars  == << call, outcome, fullText, allSources >>
toolVars  == << activeTool, isLoading, chat, toolFields, toolOutputs,
                keyVars, callVars, lastRun >>

\* ----------------------------------------------------------- pure helpers
Max(a, b) == IF a >= b THEN a ELSE b

RECURSIVE TrimStart(_)
TrimStart(s) ==
  IF s = <<>> THEN s
  ELSE IF Head(s) = " " THEN TrimStart(Tail(s)) ELSE s

RECURSIVE TrimEnd(_)
TrimEnd(s) ==
  IF s = <<>> THEN s
  ELSE IF s[Len(s)] = " " THEN TrimEnd(SubSeq(s, 1, Len(s) - 1)) ELSE s

\* String.prototype.trim
Trim(s) == TrimEnd(TrimStart(s))

\* mutant: only the role is validated
InvalidRoleOnly(role, desc) == Trim(role) = <<>>

\* the guard of startInterview (line 80)
Invalid(role, desc) == Trim(role) = <<>> \/ Trim(desc) = <<>>

\* a server message: LiveServerMessage.serverContent.  inp / out are the
\* texts of inputTranscription / outputTranscription (<<>>: absent), dur the
\* duration of the decoded inline audio (0: no audio)
Message(inp, out, turnComplete, dur, intr) ==
  [inp |-> inp, out |-> out, turnComplete |-> turnComplete, dur |-> dur,
   intr |-> intr]

NoMessage == Message(<<>>, <<>>, FALSE, 0, FALSE)

\* the field values a startInterview invocation closes over
FieldValues(role, desc) == [role |-> role, desc |-> desc]
NoFields == FieldValues(<<>>, <<>>)

\* the literal parts of the systemInstruction template (line 106), each one
\* element of the text
InstructionHead == "You are a professional interviewer conducting an interview for a '"
InstructionMiddle == "' position. The job description is: '"
InstructionTail == "'. Ask relevant behavioral and technical questions. Keep your responses concise and conversational. Start by introducing yourself and then ask the first question."

\* mutant: the template embeds the trimmed values the validation looked at
SystemInstructionTrimmed(role, desc) ==
  << InstructionHead >> \o Trim(role) \o << InstructionMiddle >>
  \o Trim(desc) \o << InstructionTail >>

\* the template literal of config.systemInstruction (line 106)
SystemInstruction(role, desc) ==
  << InstructionHead >> \o role \o << InstructionMiddle >> \o desc
  \o << InstructionTail >>

\* mutant: the fragment is assigned, not appended
AccumulateLatest(acc, text) == IF text = <<>> THEN acc ELSE text

\* <ref>.current += text (lines 160, 165); an absent fragment adds nothing
Accumulate(acc, text) == acc \o text


envVars == << attempts, pc, closeRequested, micStream, currentTime,
              delivered >>

\* ------------------------------------------------- the setTranscripts queue
\* An update is the value [] (startInterview) or one of the two updater
\* functions of the turn-complete branch; an updater reads the accumulator
\* ref when it is applied.
ResetUpdate == [op |-> "reset", speaker |-> "none"]
AppendUpdate(speaker) == [op |-> "append", speaker |-> speaker]

\* mutant: the updater returns the new entry alone
ApplyUpdateReplace(log, u, inAcc, outAcc) ==
  IF u.op = "reset" THEN <<>>
  ELSE << [speaker |-> u.speaker,
           text |-> Trim(IF u.speaker = "user" THEN inAcc ELSE outAcc)] >>

\* prev => [...prev, {speaker, text: <ref>.current.trim()}]   (lines 170, 173)
ApplyUpdate(log, u, inAcc, outAcc) ==
  IF u.op = "reset" THEN <<>>
  ELSE Append(log, [speaker |-> u.speaker,
                    text |-> Trim(IF u.speaker = "user" THEN inAcc
                                  ELSE outAcc)])

RECURSIVE ApplyAll(_, _, _, _)
ApplyAll(log, q, inAcc, outAcc) ==
  IF q = <<>> THEN log
  ELSE ApplyAll(ApplyUpdate(log, Head(q), inAcc, outAcc), Tail(q),
                inAcc, outAcc)

\* mutant: the model entry is queued before the user entry
TurnCompleteUpdatesSwapped(inAcc, outAcc) ==
  (IF Trim(outAcc) # <<>> THEN << AppendUpdate("model") >> ELSE <<>>)
  \o (IF Trim(inAcc) # <<>> THEN << AppendUpdate("user") >> ELSE <<>>)

\* the setTranscripts calls of the turn-complete branch (lines 169-174)
TurnCompleteUpdates(inAcc, outAcc) ==
  (IF Trim(inAcc) # <<>> THEN << AppendUpdate("user") >> ELSE <<>>)
  \o (IF Trim(outAcc) # <<>> THEN << AppendUpdate("model") >> ELSE <<>>)

\* setTranscripts called with the updates ups in turn.  React computes the
\* first update at once when the component has no pending work (eager) and
\* leaves every other update to the next render.  Result: <<log, queue>>.
Dispatch(log, q, ups, eager, inAcc, outAcc) ==
  IF ups = <<>> THEN << log, q >>
  ELSE IF q = <<>> /\ eager
       THEN << ApplyUpdate(log, Head(ups), inAcc, outAcc), Tail(ups) >>
       ELSE << log, q \o ups >>

\* ------------------------------------------------------ stopAudioProcessing
\* source.stop() for every member of the set (lines 73-75, 205-207): what
\* is left of the started sources
StopAll(srcs, set) == { s \in srcs : s.id \notin set }

\* mutant: the input context is never closed
CloseInputNever == FALSE

CloseInput == audioContextRef # 0 /\ inputCtx[audioContextRef] # "closed"
CloseOutput ==
  outputAudioContextRef # 0 /\ outputCtx[outputAudioContextRef] # "closed"

StopAudioProcessing ==
  /\ processorRef' = 0
  /\ processor' = IF processorRef # 0
                  THEN [processor EXCEPT ![processorRef] = "disconnected"]
                  ELSE processor
  /\ audioContextRef' = IF CloseInput THEN 0 ELSE audioContextRef
  /\ inputCtx' = IF CloseInput
                 THEN [inputCtx EXCEPT ![audioContextRef] = "closed"]
                 ELSE inputCtx
  /\ outputAudioContextRef' = IF CloseOutput THEN 0
                              ELSE outputAudioContextRef
  /\ outputCtx' = IF CloseOutput
                  THEN [outputCtx EXCEPT ![outputAudioContextRef] = "closed"]
                  ELSE outputCtx
  /\ sources' = StopAll(sources, sourcesRef)
  /\ sourcesRef' = {}

\* ------------------------------------------------------------------- Init
Init ==
  /\ interviewState = "setup"
  /\ error = "none"
  /\ transcripts = <<>>
  /\ isTalking = FALSE
  /\ jobRole = <<>>
  /\ jobDescription = <<>>
  /\ mounted = TRUE
  /\ updateQueue = <<>>
  /\ sessionPromiseRef = 0
  /\ audioContextRef = 0
  /\ outputAudioContextRef = 0
  /\ processorRef = 0
  /\ currentInputTranscriptionRef = <<>>
  /\ currentOutputTranscriptionRef = <<>>
  /\ nextStartTimeRef = 0
  /\ sourcesRef = {}
  /\ attempts = 0
  /\ pc = [a \in Attempts |-> "none"]
  /\ closeRequested = {}
  /\ micStream = [a \in Attempts |-> "none"]
  /\ inputCtx = [a \in Attempts |-> "none"]
  /\ outputCtx = [a \in Attempts |-> "none"]
  /\ processor = [a \in Attempts |-> "none"]
  /\ currentTime = [a \in Attempts |-> 0]
  /\ decoding = <<>>
  /\ sources = {}
  /\ delivered = 0
  /\ endedAttempts = {}
  /\ lastEnd = -1
  /\ interrupted = FALSE
  /\ queuedSends = {}
  /\ sendLog = {}
  /\ closure = [a \in Attempts |-> NoFields]
  /\ systemInstruction = [a \in Attempts |-> <<>>]
  /\ inputFragments = <<>>
  /\ outputFragments = <<>>
  /\ failedChunks = {}
  /\ activeTool = "none"
  /\ isLoading = FALSE
  /\ chat = FALSE
  /\ messages = <<>>
  /\ input = <<>>
  /\ resumeText = <<>>
  /\ jdText = <<>>
  /\ analysis = "null"
  /\ prompt = <<>>
  /\ imageFile = FALSE
  /\ startImageFile = FALSE
  /\ resultUrl = ""
  /\ toolError = ""
  /\ apiKeySelected = FALSE
  /\ keyCheck = "none"
  /\ selecting = 0
  /\ keyChosen = FALSE
  /\ call = "idle"
  /\ outcome = "none"
  /\ fullText = <<>>
  /\ allSources = <<>>
  /\ lastRun = [parity |-> 0, missing |-> FALSE]

\* ------------------------------------------------------------ user actions
\* onChange of the role input (line 237); the input is part of renderSetup
SetJobRole(r) ==
  /\ mounted /\ interviewState = "setup"
  /\ jobRole # r
  /\ jobRole' = r
  /\ UNCHANGED << reactVars, jobDescription, mounted, sessionPromiseRef,
                  accVars, deviceVars, playVars, envVars, endedAttempts,
                  captureVars, auxVars,
                  toolVars >>

\* onChange of the description textarea (line 243)
SetJobDescription(d) ==
  /\ mounted /\ interviewState = "setup"
  /\ jobDescription # d
  /\ jobDescription' = d
  /\ UNCHANGED << reactVars, jobRole, mounted, sessionPromiseRef,
                  accVars, deviceVars, playVars, envVars, endedAttempts,
                  captureVars, auxVars,
                  toolVars >>

\* startInterview, the validation branch (lines 80-83).  The Start button
\* is disabled for these field values (line 252), so the branch runs only
\* when the handler is invoked by other means than a click on the enabled
\* button; it changes nothing but the error text.
StartInterviewInvalid ==
  /\ mounted /\ interviewState = "setup"
  /\ Invalid(jobRole, jobDescription)
  /\ error' = "validation"
  /\ UNCHANGED << interviewState, transcripts, isTalking, updateQueue,
                  fieldVars, mounted, sessionPromiseRef, accVars,
                  deviceVars, playVars, envVars, endedAttempts,
                  captureVars, auxVars,
                  toolVars >>

\* startInterview up to the await of getUserMedia (lines 80-95).  It runs in
\* the click handler of the Start button, whose state updates React renders
\* before any other handler runs: setTranscripts([]) takes effect at once,
\* behind the updates that were still queued
StartInterview ==
  /\ mounted /\ interviewState = "setup"
  /\ ~Invalid(jobRole, jobDescription)
  /\ error' = "none"
  /\ transcripts' = ApplyAll(transcripts, updateQueue \o << ResetUpdate >>,
                             currentInputTranscriptionRef,
                             currentOutputTranscriptionRef)
  /\ updateQueue' = <<>>
  /\ interviewState' = "in_progress"
  /\ currentInputTranscriptionRef' = <<>>
  /\ currentOutputTranscriptionRef' = <<>>
  /\ nextStartTimeRef' = 0
  /\ sourcesRef' = {}
  /\ lastEnd' = -1
  /\ interrupted' = FALSE
  /\ attempts' = attempts + 1
  /\ pc' = [pc EXCEPT ![attempts + 1] = "gum"]
  /\ closure' = [closure EXCEPT
                   ![attempts + 1] = FieldValues(jobRole, jobDescription)]
  /\ inputFragments' = <<>>
  /\ outputFragments' = <<>>
  /\ UNCHANGED << isTalking, fieldVars, mounted, sessionPromiseRef,
                  deviceVars, sources, decoding, closeRequested, micStream,
                  currentTime, delivered, endedAttempts,
                  captureVars, systemInstruction, failedChunks,
                  toolVars >>

\* the body of endInterview that does not touch React state (lines 214-216)
EndSession ==
  /\ pc' = IF sessionPromiseRef # 0 /\ pc[sessionPromiseRef] = "open"
           THEN [pc EXCEPT ![sessionPromiseRef] = "closing"]
           ELSE pc
  /\ closeRequested' =
       IF sessionPromiseRef # 0 /\ pc[sessionPromiseRef] = "connecting"
       THEN closeRequested \cup {sessionPromiseRef}
       ELSE closeRequested
  /\ sessionPromiseRef' = 0
  /\ StopAudioProcessing
  /\ endedAttempts' = {a \in Attempts : pc[a] # "none"}

\* endInterview from the End Interview button (lines 213-219, 276)
EndInterview ==
  /\ mounted /\ interviewState = "in_progress"
  /\ EndSession
  /\ interviewState' = "finished"
  /\ isTalking' = FALSE
  /\ UNCHANGED << error, transcripts, updateQueue, fieldVars, mounted,
                  accVars, nextStartTimeRef, decoding, lastEnd, interrupted,
                  attempts, micStream, currentTime, delivered,
                  captureVars, auxVars,
                  toolVars >>

\* the effect cleanup on unmount (lines 221-227); the state setters of an
\* unmounted component have no effect
Unmount ==
  /\ mounted
  /\ mounted' = FALSE
  /\ EndSession
  /\ UNCHANGED << reactVars, fieldVars, accVars, nextStartTimeRef, decoding,
                  lastEnd, interrupted, attempts, micStream, currentTime,
                  delivered,
                  captureVars, auxVars,
                  toolVars >>

\* the Start Another Interview button (line 297)
Restart ==
  /\ mounted /\ interviewState \in {"finished", "error"}
  /\ interviewState' = "setup"
  /\ UNCHANGED << error, transcripts, isTalking, updateQueue, fieldVars,
                  mounted, sessionPromiseRef, accVars, deviceVars, playVars,
                  envVars, endedAttempts,
                  captureVars, auxVars,
                  toolVars >>

\* React renders the component and applies the queued updates in order
Render ==
  /\ mounted /\ updateQueue # <<>>
  /\ transcripts' = ApplyAll(transcripts, updateQueue,
                             currentInputTranscriptionRef,
                             currentOutputTranscriptionRef)
  /\ updateQueue' = <<>>
  /\ UNCHANGED << interviewState, error, isTalking, fieldVars, mounted,
                  sessionPromiseRef, accVars, deviceVars, playVars, envVars,
                  endedAttempts,
                  captureVars, auxVars,
                  toolVars >>


\* ------------------------------------------------- start sequence, session
\* getUserMedia resolves; startInterview goes on to ai.live.connect
\* (lines 95-148)
GetUserMediaResolve(a) ==
  /\ pc[a] = "gum"
  /\ micStream' = [micStream EXCEPT ![a] = "live"]
  /\ sessionPromiseRef' = a
  /\ pc' = [pc EXCEPT ![a] = "connecting"]
  /\ systemInstruction' =
       [systemInstruction EXCEPT
          ![a] = SystemInstruction(closure[a].role, closure[a].desc)]
  /\ UNCHANGED << reactVars, fieldVars, mounted, accVars, deviceVars,
                  playVars, attempts, closeRequested, currentTime, delivered,
                  endedAttempts,
                  captureVars, closure, fragVars, failedChunks,
                  toolVars >>

\* mutant: the catch block only logs the failure
GetUserMediaRejectSilent(a) ==
  /\ pc[a] = "gum"
  /\ pc' = [pc EXCEPT ![a] = "rejected"]
  /\ UNCHANGED << reactVars, fieldVars, mounted, sessionPromiseRef, accVars,
                  deviceVars, playVars, attempts, closeRequested, micStream,
                  currentTime, delivered, endedAttempts, captureVars, auxVars,
                  toolVars >>

\* mutant: the catch block sets the message and leaves interviewState
GetUserMediaRejectNoState(a) ==
  /\ pc[a] = "gum"
  /\ pc' = [pc EXCEPT ![a] = "rejected"]
  /\ IF mounted THEN error' = "mic" ELSE UNCHANGED error
  /\ UNCHANGED << interviewState, transcripts, isTalking, updateQueue,
                  fieldVars, mounted, sessionPromiseRef, accVars, deviceVars,
                  playVars, attempts, closeRequested, micStream, currentTime,
                  delivered, endedAttempts, captureVars, auxVars,
                  toolVars >>

\* getUserMedia rejects; the catch block runs (lines 150-154)
GetUserMediaReject(a) ==
  /\ pc[a] = "gum"
  /\ pc' = [pc EXCEPT ![a] = "rejected"]
  /\ IF mounted
     THEN error' = "mic" /\ interviewState' = "error"
     ELSE UNCHANGED << error, interviewState >>
  /\ UNCHANGED << transcripts, isTalking, updateQueue, fieldVars, mounted,
                  sessionPromiseRef, accVars, deviceVars, playVars, attempts,
                  closeRequested, micStream, currentTime, delivered,
                  endedAttempts,
                  captureVars, auxVars,
                  toolVars >>

\* the connect promise of the attempt has resolved: it resolves right after
\* onopen, which creates the attempt's audio contexts (lines 109-113)
Resolved(a) == inputCtx[a] # "none"

\* onopen (lines 109-133); the connect promise resolves right after it: the
\* sends that onaudioprocess chained to the promise run then, in the order
\* they were chained, and after them a session.close() that endInterview
\* chained
OnOpen(a) ==
  /\ pc[a] = "connecting"
  /\ audioContextRef' = a
  /\ outputAudioContextRef' = a
  /\ processorRef' = a
  /\ inputCtx' = [inputCtx EXCEPT ![a] = "running"]
  /\ outputCtx' = [outputCtx EXCEPT ![a] = "running"]
  /\ processor' = [processor EXCEPT ![a] = "connected"]
  /\ pc' = [pc EXCEPT ![a] = IF a \in closeRequested THEN "closing"
                              ELSE "open"]
  /\ closeRequested' = closeRequested \ {a}
  /\ sendLog' = IF a \in queuedSends THEN sendLog \cup {"open"} ELSE sendLog
  /\ queuedSends' = queuedSends \ {a}
  /\ UNCHANGED << reactVars, fieldVars, mounted, sessionPromiseRef, accVars,
                  playVars, attempts, micStream, currentTime, delivered,
                  endedAttempts, auxVars,
                  toolVars >>

\* onerror (lines 137-142)
OnError(a) ==
  /\ pc[a] \in {"connecting", "open"}
  /\ pc' = [pc EXCEPT ![a] = "failed"]
  /\ IF mounted
     THEN error' = "session" /\ interviewState' = "error"
     ELSE UNCHANGED << error, interviewState >>
  /\ StopAudioProcessing
  /\ UNCHANGED << transcripts, isTalking, updateQueue, fieldVars, mounted,
                  sessionPromiseRef, accVars, nextStartTimeRef, decoding,
                  lastEnd, interrupted, attempts, closeRequested, micStream,
                  currentTime, delivered, endedAttempts,
                  captureVars, auxVars,
                  toolVars >>

\* mutant: onclose ends the interview as endInterview does
OnCloseEnds(a) ==
  /\ pc[a] \in {"open", "closing", "failed"}
  /\ pc' = [pc EXCEPT ![a] = "closed"]
  /\ StopAudioProcessing
  /\ sessionPromiseRef' = 0
  /\ IF mounted
     THEN interviewState' = "finished" /\ isTalking' = FALSE
     ELSE UNCHANGED << interviewState, isTalking >>
  /\ UNCHANGED << error, transcripts, updateQueue, fieldVars, mounted,
                  accVars, nextStartTimeRef, decoding, lastEnd, interrupted,
                  attempts, closeRequested, micStream, currentTime, delivered,
                  endedAttempts, captureVars, auxVars,
                  toolVars >>

\* onclose (lines 143-146): the service closed the session, or the close
\* that follows session.close() or a transport error completed
OnClose(a) ==
  /\ pc[a] \in {"open", "closing", "failed"}
  /\ pc' = [pc EXCEPT ![a] = "closed"]
  /\ StopAudioProcessing
  /\ UNCHANGED << reactVars, fieldVars, mounted, sessionPromiseRef, accVars,
                  nextStartTimeRef, decoding, lastEnd, interrupted, attempts,
                  closeRequested, micStream, currentTime, delivered,
                  endedAttempts,
                  captureVars, auxVars,
                  toolVars >>

\* onaudioprocess of the capture processor the attempt created in onopen
\* (lines 117-130): the block is sent to the session whose promise is in
\* sessionPromiseRef at that moment, at once when the promise has resolved
\* and at its resolution otherwise; with a null ref the block is dropped
OnAudioProcess(a) ==
  /\ processor[a] = "connected" /\ inputCtx[a] = "running"
  /\ IF sessionPromiseRef = 0
     THEN UNCHANGED captureVars
     ELSE IF Resolved(sessionPromiseRef)
     THEN /\ sendLog' = sendLog \cup {pc[sessionPromiseRef]}
          /\ UNCHANGED queuedSends
     ELSE /\ queuedSends' = queuedSends \cup {sessionPromiseRef}
          /\ UNCHANGED sendLog
  /\ UNCHANGED << reactVars, fieldVars, mounted, sessionPromiseRef, accVars,
                  deviceVars, playVars, envVars, endedAttempts, auxVars,
                  toolVars >>

\* ------------------------------------------------------- handleLiveMessage
Messages ==
  { Message(i, o, t, d, x) :
      i \in {<<>>} \cup Fragments, o \in {<<>>} \cup Fragments,
      t \in BOOLEAN, d \in {0} \cup Durations, x \in BOOLEAN } \ {NoMessage}

\* mutant: Math.min in place of Math.max
ScheduleMin(cursor, now) == IF cursor <= now THEN cursor ELSE now

\* mutant: the cursor is set to the clock even when it is ahead of it
ScheduleNow(cursor, now) == now

\* Math.max(nextStartTimeRef.current, outputAudioContext.currentTime)
\* (lines 185-188)
ScheduleTime(cursor, now) == Max(cursor, now)

\* mutant: the cursor is not advanced
AdvanceNone(cursor, dur) == cursor

\* nextStartTimeRef.current += audioBuffer.duration (line 199)
Advance(cursor, dur) == cursor + dur

\* history: an interruption was handled while these decodes were pending
MarkStale(ds) == [i \in DOMAIN ds |-> [ds[i] EXCEPT !.stale = TRUE]]

\* the suspended invocations without the one that resumes
RemoveAt(q, i) == SubSeq(q, 1, i - 1) \o SubSeq(q, i + 1, Len(q))

\* the interruption branch (lines 203-210), applied to the playback state
\* <<sources, sourcesRef, cursor>>
Interrupted(srcs, set, cursor) == << StopAll(srcs, set), {}, 0 >>

\* the values isTalking takes in handleLiveMessage (lines 161, 177)
Talking(m, talking) ==
  IF m.turnComplete THEN FALSE
  ELSE IF m.inp # <<>> THEN TRUE ELSE talking

\* handleLiveMessage from its start to the await of decodeAudioData, or to
\* its end when the message has no audio to decode (lines 157-189, 203-210)
OnMessage(a, m) ==
  /\ pc[a] = "open"
  /\ delivered' = delivered + 1
  /\ LET in1  == Accumulate(currentInputTranscriptionRef, m.inp)
         out1 == Accumulate(currentOutputTranscriptionRef, m.out)
         ups  == IF m.turnComplete THEN TurnCompleteUpdates(in1, out1)
                 ELSE <<>>
         audio == m.dur > 0 /\ outputAudioContextRef # 0
     IN  /\ currentInputTranscriptionRef' =
              IF m.turnComplete THEN <<>> ELSE in1
         /\ currentOutputTranscriptionRef' =
              IF m.turnComplete THEN <<>> ELSE out1
         /\ inputFragments' =
              IF m.turnComplete THEN <<>>
              ELSE IF m.inp # <<>> THEN Append(inputFragments, m.inp)
              ELSE inputFragments
         /\ outputFragments' =
              IF m.turnComplete THEN <<>>
              ELSE IF m.out # <<>> THEN Append(outputFragments, m.out)
              ELSE outputFragments
         /\ IF mounted
            THEN /\ \E eager \in BOOLEAN :
                      LET r == Dispatch(transcripts, updateQueue, ups, eager,
                                        in1, out1)
                      IN  transcripts' = r[1] /\ updateQueue' = r[2]
                 /\ isTalking' = Talking(m, isTalking)
            ELSE UNCHANGED << transcripts, updateQueue, isTalking >>
         /\ IF audio
            THEN /\ nextStartTimeRef' =
                      ScheduleTime(nextStartTimeRef,
                                   currentTime[outputAudioContextRef])
                 /\ decoding' =
                      Append(decoding,
                             [id |-> delivered + 1,
                              ctx |-> outputAudioContextRef, dur |-> m.dur,
                              intr |-> m.intr, att |-> a, stale |-> FALSE,
                              now |-> currentTime[outputAudioContextRef],
                              fresh |-> interrupted])
                 /\ interrupted' = FALSE
                 /\ lastEnd' =
                      IF currentTime[outputAudioContextRef] > nextStartTimeRef
                      THEN -1 ELSE lastEnd
                 /\ UNCHANGED << sources, sourcesRef >>
            ELSE IF m.intr
            THEN LET r == Interrupted(sources, sourcesRef, nextStartTimeRef)
                 IN  /\ sources' = r[1]
                     /\ sourcesRef' = r[2]
                     /\ nextStartTimeRef' = r[3]
                     /\ decoding' = MarkStale(decoding)
                     /\ lastEnd' = -1
                     /\ interrupted' = TRUE
            ELSE UNCHANGED playVars
  /\ UNCHANGED << interviewState, error, fieldVars, mounted,
                  sessionPromiseRef, deviceVars, attempts, pc,
                  closeRequested, micStream, currentTime, endedAttempts,
                  captureVars, requestVars, failedChunks,
                  toolVars >>

\* handleLiveMessage from the completion of decodeAudioData to its end
\* (lines 189-210)
DecodeDone(i) ==
  /\ i \in DOMAIN decoding
  /\ LET d    == decoding[i]
         src  == [id |-> d.id, start |-> nextStartTimeRef, dur |-> d.dur,
                  ctx |-> d.ctx, at |-> currentTime[d.ctx],
                  stale |-> d.stale, prev |-> lastEnd, now |-> d.now,
                  fresh |-> d.fresh, att |-> d.att]
         srcs == sources \cup {src}
         set  == sourcesRef \cup {src.id}
         next == Advance(nextStartTimeRef, d.dur)
         rest == RemoveAt(decoding, i)
     IN  IF d.intr
         THEN LET r == Interrupted(srcs, set, next)
              IN  /\ sources' = r[1]
                  /\ sourcesRef' = r[2]
                  /\ nextStartTimeRef' = r[3]
                  /\ decoding' = MarkStale(rest)
                  /\ lastEnd' = -1
                  /\ interrupted' = TRUE
         ELSE /\ sources' = srcs
              /\ sourcesRef' = set
              /\ nextStartTimeRef' = next
              /\ decoding' = rest
              /\ lastEnd' = src.start + src.dur
              /\ UNCHANGED interrupted
  /\ UNCHANGED << reactVars, fieldVars, mounted, sessionPromiseRef, accVars,
                  deviceVars, envVars, endedAttempts,
                  captureVars, auxVars,
                  toolVars >>

\* mutant: a handler around the await treats the failure as a session
\* error
DecodeFailFatal(i) ==
  /\ i \in DOMAIN decoding
  /\ decoding' = RemoveAt(decoding, i)
  /\ failedChunks' = failedChunks \cup {decoding[i].id}
  /\ IF mounted
     THEN error' = "session" /\ interviewState' = "error"
     ELSE UNCHANGED << error, interviewState >>
  /\ StopAudioProcessing
  /\ UNCHANGED << transcripts, isTalking, updateQueue, fieldVars, mounted,
                  sessionPromiseRef, accVars, nextStartTimeRef, lastEnd,
                  interrupted, envVars, endedAttempts, captureVars,
                  requestVars, fragVars,
                  toolVars >>

\* decodeAudioData (or decode) throws: the promise handleLiveMessage
\* returned is rejected at line 189 and nothing handles the rejection
\* (onmessage does not await it, lines 134-136).  The rest of the
\* invocation does not run: no source is created, the cursor is not
\* advanced, and an interruption marker of the same message is not handled
DecodeFail(i) ==
  /\ i \in DOMAIN decoding
  /\ decoding' = RemoveAt(decoding, i)
  /\ failedChunks' = failedChunks \cup {decoding[i].id}
  /\ UNCHANGED << reactVars, fieldVars, mounted, sessionPromiseRef, accVars,
                  deviceVars, nextStartTimeRef, sourcesRef, sources, lastEnd,
                  interrupted, envVars, endedAttempts, captureVars,
                  requestVars, fragVars,
                  toolVars >>

\* ------------------------------------------------------------ audio device
\* the output context's clock advances
Tick(a) ==
  /\ outputCtx[a] = "running"
  /\ currentTime' = [currentTime EXCEPT ![a] = @ + 1]
  /\ UNCHANGED << reactVars, fieldVars, mounted, sessionPromiseRef, accVars,
                  deviceVars, playVars, attempts, pc, closeRequested,
                  micStream, delivered, endedAttempts,
                  captureVars, auxVars,
                  toolVars >>

\* the 'ended' listener of a source that played to its end (lines 194-196)
SourceEnded(s) ==
  /\ s \in sources
  /\ currentTime[s.ctx] >= Max(s.start, s.at) + s.dur
  /\ sources' = sources \ {s}
  /\ sourcesRef' = sourcesRef \ {s.id}
  /\ UNCHANGED << reactVars, fieldVars, mounted, sessionPromiseRef, accVars,
                  deviceVars, nextStartTimeRef, decoding, lastEnd, interrupted,
                  envVars, endedAttempts,
                  captureVars, auxVars,
                  toolVars >>

\* ---------------------------------------------------------- specifications
\* the accumulators stay within the bound
Fits(m) ==
  /\ m.inp # <<>> => Len(currentInputTranscriptionRef) < MaxText
  /\ m.out # <<>> => Len(currentOutputTranscriptionRef) < MaxText

\* messages that carry audio or the interruption marker only
AudioMessages ==
  { m \in Messages : m.inp = <<>> /\ m.out = <<>> /\ ~m.turnComplete }

\* messages that carry transcription fragments or the turn-complete marker
TextMessages == { m \in Messages : m.dur = 0 /\ ~m.intr }

\* the messages of Spec: a whole turn, an audio chunk, an interruption
WholeMessages ==
  { Message(<<"a">>, <<"a">>, TRUE, 0, FALSE),
    Message(<<>>, <<>>, FALSE, 1, FALSE),
    Message(<<>>, <<>>, FALSE, 0, TRUE) }

\* Spec: the whole component, up to MaxAttempts interviews
Next ==
  \/ \E r \in Fields : SetJobRole(r)
  \/ \E d \in Fields : SetJobDescription(d)
  \/ StartInterviewInvalid
  \/ attempts < MaxAttempts /\ StartInterview
  \/ EndInterview
  \/ Unmount
  \/ Restart
  \/ Render
  \/ \E a \in Attempts : GetUserMediaResolve(a)
  \/ \E a \in Attempts : GetUserMediaReject(a)
  \/ \E a \in Attempts : OnOpen(a)
  \/ \E a \in Attempts : OnError(a)
  \/ \E a \in Attempts : OnClose(a)
  \/ \E a \in Attempts, m \in WholeMessages :
       delivered < MaxMessages /\ Fits(m) /\ OnMessage(a, m)
  \/ \E i \in DOMAIN decoding : DecodeDone(i)
  \/ \E a \in Attempts : currentTime[a] < MaxClock /\ Tick(a)
  \/ \E s \in sources : SourceEnded(s)

Spec == Init /\ [][Next]_vars

\* SpecPlayback: one interview, from setup to its end, whose messages carry
\* audio and interruption markers
NextPlayback ==
  \/ \E r \in Fields : SetJobRole(r)
  \/ \E d \in Fields : SetJobDescription(d)
  \/ StartInterviewInvalid
  \/ StartInterview
  \/ EndInterview
  \/ Unmount
  \/ \E a \in Attempts : GetUserMediaResolve(a)
  \/ \E a \in Attempts : GetUserMediaReject(a)
  \/ \E a \in Attempts : OnOpen(a)
  \/ \E a \in Attempts : OnError(a)
  \/ \E a \in Attempts : OnClose(a)
  \/ \E a \in Attempts, m \in AudioMessages :
       delivered < MaxChunks /\ OnMessage(a, m)
  \/ \E i \in DOMAIN decoding : DecodeDone(i)
  \/ \E a \in Attempts : currentTime[a] < MaxClock /\ Tick(a)
  \/ \E s \in sources : SourceEnded(s)

SpecPlayback == Init /\ [][NextPlayback]_vars

\* SpecTranscript: one interview, from setup to its end, whose messages
\* carry transcription fragments and turn-complete markers
NextTranscript ==
  \/ \E r \in Fields : SetJobRole(r)
  \/ \E d \in Fields : SetJobDescription(d)
  \/ StartInterviewInvalid
  \/ StartInterview
  \/ EndInterview
  \/ Unmount
  \/ Render
  \/ \E a \in Attempts : GetUserMediaResolve(a)
  \/ \E a \in Attempts : GetUserMediaReject(a)
  \/ \E a \in Attempts : OnOpen(a)
  \/ \E a \in Attempts : OnError(a)
  \/ \E a \in Attempts : OnClose(a)
  \/ \E a \in Attempts, m \in TextMessages :
       delivered < MaxTurns /\ Fits(m) /\ OnMessage(a, m)

SpecTranscript == Init /\ [][NextTranscript]_vars

\* SpecCapture: the sessions of up to MaxAttempts interviews with the capture
\* callback, and no server messages
NextCapture ==
  \/ \E r \in Fields : SetJobRole(r)
  \/ \E d \in Fields : SetJobDescription(d)
  \/ StartInterviewInvalid
  \/ attempts < MaxAttempts /\ StartInterview
  \/ EndInterview
  \/ Unmount
  \/ Restart
  \/ \E a \in Attempts : GetUserMediaResolve(a)
  \/ \E a \in Attempts : GetUserMediaReject(a)
  \/ \E a \in Attempts : OnOpen(a)
  \/ \E a \in Attempts : OnError(a)
  \/ \E a \in Attempts : OnClose(a)
  \/ \E a \in Attempts : OnAudioProcess(a)

SpecCapture == Init /\ [][NextCapture]_vars

\* SpecLog: the transcript log over up to MaxAttempts interviews, whose
\* messages are whole turns
NextLog ==
  \/ \E r \in Fields : SetJobRole(r)
  \/ \E d \in Fields : SetJobDescription(d)
  \/ StartInterviewInvalid
  \/ attempts < MaxAttempts /\ StartInterview
  \/ EndInterview
  \/ Unmount
  \/ Restart
  \/ Render
  \/ \E a \in Attempts : GetUserMediaResolve(a)
  \/ \E a \in Attempts : GetUserMediaReject(a)
  \/ \E a \in Attempts : OnOpen(a)
  \/ \E a \in Attempts : OnError(a)
  \/ \E a \in Attempts : OnClose(a)
  \/ \E a \in Attempts, m \in WholeMessages \cap TextMessages :
       delivered < MaxMessages /\ OnMessage(a, m)

SpecLog == Init /\ [][NextLog]_vars

\* the messages of SpecSession and SpecCursor: a fragment, a turn-complete
\* marker with a fragment, an audio chunk, an interruption marker, and an
\* audio chunk with the interruption marker
SessionMessages ==
  { Message(<<"a">>, <<>>, FALSE, 0, FALSE),
    Message(<<>>, <<"a">>, TRUE, 0, FALSE),
    Message(<<>>, <<>>, FALSE, 1, FALSE),
    Message(<<>>, <<>>, FALSE, 0, TRUE),
    Message(<<>>, <<>>, FALSE, 1, TRUE) }

\* SpecSession: one interview, from setup to its end, with messages of
\* every kind and decodes that may fail
NextSession ==
  \/ \E r \in Fields : SetJobRole(r)
  \/ \E d \in Fields : SetJobDescription(d)
  \/ StartInterviewInvalid
  \/ StartInterview
  \/ EndInterview
  \/ Unmount
  \/ Render
  \/ \E a \in Attempts : GetUserMediaResolve(a)
  \/ \E a \in Attempts : GetUserMediaReject(a)
  \/ \E a \in Attempts : OnOpen(a)
  \/ \E a \in Attempts : OnError(a)
  \/ \E a \in Attempts : OnClose(a)
  \/ \E a \in Attempts, m \in SessionMessages :
       delivered < MaxChunks /\ Fits(m) /\ OnMessage(a, m)
  \/ \E i \in DOMAIN decoding : DecodeDone(i)
  \/ \E i \in DOMAIN decoding : DecodeFail(i)
  \/ \E a \in Attempts : currentTime[a] < MaxClock /\ Tick(a)
  \/ \E s \in sources : SourceEnded(s)

SpecSession == Init /\ [][NextSession]_vars

\* SpecCursor: up to MaxAttempts interviews with messages of every kind
NextCursor ==
  \/ SetJobRole(<< " ", "a" >>)
  \/ SetJobDescription(<< " ", "a" >>)
  \/ attempts < MaxAttempts /\ StartInterview
  \/ EndInterview
  \/ Restart
  \/ \E a \in Attempts : GetUserMediaResolve(a)
  \/ \E a \in Attempts : GetUserMediaReject(a)
  \/ \E a \in Attempts : OnOpen(a)
  \/ \E a \in Attempts : OnError(a)
  \/ \E a \in Attempts : OnClose(a)
  \/ \E a \in Attempts, m \in SessionMessages :
       delivered < MaxEvents /\ Fits(m) /\ OnMessage(a, m)
  \/ \E i \in DOMAIN decoding : DecodeDone(i)
  \/ \E a \in Attempts : currentTime[a] < MaxClock /\ Tick(a)
  \/ \E s \in sources : SourceEnded(s)

SpecCursor == Init /\ [][NextCursor]_vars

\* what the user can type under SpecRequest: texts with leading and
\* trailing whitespace, and two different texts
RequestRoles == { << " ", "a" >>, << "a", " " >>, << "b" >> }
RequestDescriptions == { << "a", " " >>, << " ", "b" >> }

\* SpecRequest: the start sequences of up to MaxAttempts interviews, each up
\* to the session-open request it makes
NextRequest ==
  \/ \E r \in RequestRoles : SetJobRole(r)
  \/ \E d \in RequestDescriptions : SetJobDescription(d)
  \/ StartInterviewInvalid
  \/ attempts < MaxAttempts /\ StartInterview
  \/ EndInterview
  \/ Unmount
  \/ Restart
  \/ \E a \in Attempts : GetUserMediaResolve(a)
  \/ \E a \in Attempts : GetUserMediaReject(a)

SpecRequest == Init /\ [][NextRequest]_vars

\* ==================================================================== claims
\* the members of ActiveSourceSet
ActiveSources == { s \in sources : s.id \in sourcesRef }

\* ------------------------------------------------------------------- C1
AllowedTransitions ==
  { << "setup", "in_progress" >>, << "in_progress", "finished" >>,
    << "in_progress", "error" >>, << "finished", "setup" >>,
    << "error", "setup" >> }

\* C1: interviewState changes only along setup -> in_progress,
\* in_progress -> finished, in_progress -> error, finished -> setup and
\* error -> setup, under every interleaving of user actions and callbacks.
C1_OnlyAllowedTransitions ==
  [][ interviewState' # interviewState
        => << interviewState, interviewState' >> \in AllowedTransitions ]_vars

\* ------------------------------------------------------------------- C2
\* a streaming session that has opened and has not been asked to close
Live(a) == pc[a] = "open"

\* C2: at no time are two streaming sessions live simultaneously, also when
\* endInterview or unmount happens while getUserMedia or connect is pending
\* and a new startInterview follows.
C2_AtMostOneLiveSession == Cardinality({ a \in Attempts : Live(a) }) <= 1

\* ------------------------------------------------------------------- C3
\* C3: an audio chunk received before an interruption marker whose decode
\* completes after the interruption was handled is not started and is not
\* added to ActiveSourceSet (stated for an interview in progress).
C3_NoAudioFromBeforeInterruption ==
  interviewState = "in_progress" => \A s \in ActiveSources : ~s.stale

\* ------------------------------------------------------------------- C4
\* handleLiveMessage runs its interruption branch in this step
InterruptionHandled ==
  \/ \E a \in Attempts, m \in Messages :
       /\ m.intr
       /\ ~(m.dur > 0 /\ outputAudioContextRef # 0)
       /\ OnMessage(a, m)
  \/ \E i \in DOMAIN decoding : decoding[i].intr /\ DecodeDone(i)

\* C4: right after a message with the interruption marker was processed,
\* every source of ActiveSourceSet has been stopped, the set is empty and
\* the cursor is 0; the next audio chunk received afterwards is started at
\* the output clock time it was received at (stated for an interview in
\* progress and a chunk started before any further message is received).
C4_InterruptionResets ==
  [][ /\ InterruptionHandled
         => /\ sourcesRef' = {}
            /\ nextStartTimeRef' = 0
            /\ ActiveSources \cap sources' = {}
      /\ \A s \in sources' \ sources :
           interviewState = "in_progress" /\ s.fresh /\ s.id = delivered
             => s.start = s.now
    ]_vars

C6_NoStartInThePast ==
  interviewState = "in_progress"
    => \A s \in ActiveSources : ~s.stale => s.start >= s.at

\* ------------------------------------------------------------------- C7
\* C7: for consecutive segments handled with no interruption between them,
\* each received while the cursor is not behind the output clock,
\* start(i+1) = start(i) + d_i, and after each segment the cursor is
\* start(i) + d_i.
C7_Gapless ==
  /\ lastEnd # -1 => nextStartTimeRef = lastEnd
  /\ \A s \in sources : s.prev # -1 => s.start = s.prev

\* a segment was started right behind its predecessor, and the cursor is at
\* its end
C7_Witness ==
  \E s \in ActiveSources :
    s.prev # -1 /\ s.start > 0 /\ nextStartTimeRef = s.start + s.dur

\* ------------------------------------------------------------------- C8
Speakers(log) == [i \in DOMAIN log |-> log[i].speaker]

\* the transcript log once the queued updates are applied
PendingLog ==
  ApplyAll(transcripts, updateQueue, currentInputTranscriptionRef,
           currentOutputTranscriptionRef)

\* the entries the claim expects of a turn-complete marker handled with the
\* accumulators inAcc and outAcc
ExpectedSpeakers(inAcc, outAcc) ==
  (IF Trim(inAcc) # <<>> THEN << "user" >> ELSE <<>>)
  \o (IF Trim(outAcc) # <<>> THEN << "model" >> ELSE <<>>)

\* C8: handling a turn-complete marker appends a user entry iff the trimmed
\* user accumulator is non-empty and a model entry iff the trimmed model
\* accumulator is non-empty, the user entry first, and nothing else; a
\* message without the marker appends nothing, and a render adds to the log
\* exactly the entries that were queued.
C8_TurnCompleteFlush ==
  [][ /\ \A a \in Attempts, m \in Messages :
           mounted /\ OnMessage(a, m)
             => Speakers(PendingLog') =
                  Speakers(PendingLog)
                  \o (IF m.turnComplete
                      THEN ExpectedSpeakers(
                             currentInputTranscriptionRef \o m.inp,
                             currentOutputTranscriptionRef \o m.out)
                      ELSE <<>>)
      /\ Render => Speakers(transcripts') = Speakers(PendingLog) ]_vars

\* the log holds the user entry and then the model entry of one turn, and a
\* later turn whose accumulators were blank added nothing
C8_Witness ==
  /\ Speakers(transcripts) = << "user", "model" >>
  /\ updateQueue = <<>>
  /\ delivered >= 2

\* ------------------------------------------------------------------- C9
\* C9: the text of every entry of the transcript log is the trimmed content
\* its accumulator held when the turn-complete marker was handled; no entry
\* with empty text is ever in the log (stated for an interview in progress).
C9_NoEmptyEntry ==
  interviewState = "in_progress"
    => \A i \in DOMAIN transcripts : transcripts[i].text # <<>>

\* ------------------------------------------------------------------ C10
\* an inbound event or a decode completion of a session that was begun
\* before an endInterview that has run
StaleSessionEvent ==
  \/ \E a \in endedAttempts, m \in Messages : OnMessage(a, m)
  \/ \E i \in DOMAIN decoding :
       decoding[i].att \in endedAttempts /\ DecodeDone(i)

\* C10: after endInterview has run, no inbound event and no decode
\* completion of the ended session changes the transcript log, the
\* accumulators, isTalking, ActiveSourceSet or the cursor.
C10_EndedSessionIsInert ==
  [][ StaleSessionEvent
        => UNCHANGED << transcripts, updateQueue,
                        currentInputTranscriptionRef,
                        currentOutputTranscriptionRef, isTalking,
                        sourcesRef, nextStartTimeRef >> ]_vars

\* ------------------------------------------------------------------ C11
\* the full teardown has run: the capture processor is disconnected, both
\* audio contexts are closed and their refs null, ActiveSourceSet is empty,
\* the streaming session is closed and the session handle is null
TornDown ==
  /\ processorRef = 0 /\ audioContextRef = 0 /\ outputAudioContextRef = 0
  /\ sourcesRef = {}
  /\ sessionPromiseRef = 0
  /\ \A a \in Attempts :
       /\ processor[a] # "connected"
       /\ inputCtx[a] # "running" /\ outputCtx[a] # "running"
       /\ pc[a] \notin {"connecting", "open"}

\* C11: whenever the controller enters the error state from in_progress
\* (onerror, or a failure in the try block of startInterview), the full
\* teardown has run.
C11_ErrorImpliesTeardown ==
  [][ interviewState = "in_progress" /\ interviewState' = "error"
        => TornDown' ]_vars

\* ------------------------------------------------------------------ C12
\* SpecTranscript with the handlers that are enabled eventually run
SpecTranscriptFair == SpecTranscript /\ WF_vars(NextTranscript)

\* the session of the attempt is over: the controller has left in_progress,
\* or the session was closed or failed
SessionOver(a) ==
  interviewState # "in_progress" \/ pc[a] \in {"closed", "failed"}

\* C12: on every exit path of a session the microphone stream obtained from
\* getUserMedia is eventually released, together with the capture processor
\* and the capture context.
C12_MicrophoneReleased ==
  \A a \in Attempts :
    (micStream[a] = "live" /\ SessionOver(a))
      ~> /\ micStream[a] # "live"
         /\ processor[a] # "connected"
         /\ inputCtx[a] # "running"

\* ------------------------------------------------------------------ C13
\* a device or the connection of the attempt is still unreleased
Unreleased(b) ==
  \/ micStream[b] = "live"
  \/ inputCtx[b] = "running" \/ outputCtx[b] = "running"
  \/ pc[b] \in {"connecting", "open", "closing"}

\* the attempt acquires the microphone or creates its audio contexts in this
\* step
Acquires(a) ==
  \/ micStream[a] # "live" /\ micStream'[a] = "live"
  \/ inputCtx[a] = "none" /\ inputCtx'[a] = "running"

\* C13: a new session never acquires the microphone or creates its audio
\* contexts while the microphone stream, an audio context or the connection
\* of a previous session is still unreleased.
C13_ExclusiveDevices ==
  [][ \A a \in Attempts :
        Acquires(a) => \A b \in Attempts : b < a => ~Unreleased(b) ]_vars

\* ------------------------------------------------------------------ C14
\* C14: after a session has been closed (by endInterview, by a remote close
\* or by a transport error) no capture callback invokes sendRealtimeInput on
\* it: every send is made on a session that is open.
C14_NoSendAfterClose == sendLog \subseteq {"open"}

\* ------------------------------------------------------------------ C15
\* C15: if startInterview is invoked while the trimmed job role or the
\* trimmed job description is empty, interviewState stays setup, the
\* validation error is set and nothing else happens: getUserMedia and
\* ai.live.connect are not called, and the transcripts, the accumulators,
\* the cursor and ActiveSourceSet are unchanged.
C15_ValidationRejects ==
  [][ /\ StartInterview \/ StartInterviewInvalid
      /\ Trim(jobRole) = <<>> \/ Trim(jobDescription) = <<>>
      => /\ interviewState' = "setup"
         /\ error' = "validation"
         /\ UNCHANGED << transcripts, updateQueue, accVars, nextStartTimeRef,
                         sourcesRef, sessionPromiseRef, attempts, pc,
                         micStream >> ]_vars

\* startInterview was invoked with a role and an all-whitespace description
C15_Witness ==
  /\ error = "validation" /\ interviewState = "setup"
  /\ Trim(jobRole) # <<>>
  /\ jobDescription # <<>> /\ Trim(jobDescription) = <<>>
  /\ attempts = 0

\* ------------------------------------------------------------------ C16
\* nothing of a session exists for the attempt
NoSession(a) ==
  /\ micStream[a] = "none"
  /\ inputCtx[a] = "none" /\ outputCtx[a] = "none"
  /\ processor[a] = "none"
  /\ sessionPromiseRef # a

\* C16: if getUserMedia rejects, ai.live.connect is never called for that
\* attempt, no audio context or capture processor is created for it, the
\* (mounted) controller goes to the error state with the error message set,
\* and no partial session of the attempt is left running.
C16_MicDeniedAborts ==
  [][ \A a \in Attempts :
        /\ pc[a] = "gum" /\ pc'[a] = "rejected" /\ mounted
            => interviewState' = "error" /\ error' = "mic"
        /\ pc[a] = "rejected" => pc'[a] = "rejected"
        /\ pc'[a] = "rejected" => NoSession(a)' ]_vars

\* the microphone was denied and the controller shows the error state
C16_Witness ==
  \E a \in Attempts :
    pc[a] = "rejected" /\ interviewState = "error" /\ error = "mic"

\* ------------------------------------------------------------------ C17
\* endInterview runs in this step: from the End Interview button or from the
\* unmount cleanup
EndInterviewStep ==
  \/ interviewState = "in_progress" /\ interviewState' = "finished"
  \/ mounted /\ ~mounted'

\* a step that runs stopAudioProcessing: endInterview, onerror or onclose
TeardownStep ==
  \/ EndInterviewStep
  \/ \E a \in Attempts : pc'[a] # pc[a] /\ pc'[a] \in {"failed", "closed"}

\* what stopAudioProcessing leaves behind
AudioReleased ==
  /\ processorRef = 0 /\ audioContextRef = 0 /\ outputAudioContextRef = 0
  /\ sourcesRef = {}

\* C17: teardown is idempotent.  Every teardown leaves the refs null and
\* ActiveSourceSet empty (endInterview also the session handle), and a
\* teardown invoked in such a state leaves them so and performs no
\* disconnect, close or stop (and, for endInterview with a null handle, no
\* session close).
C17_TeardownIdempotent ==
  [][ /\ TeardownStep => AudioReleased'
      /\ EndInterviewStep => sessionPromiseRef' = 0
      /\ TeardownStep /\ AudioReleased
           => UNCHANGED << deviceVars, sourcesRef, sources >>
      /\ EndInterviewStep /\ sessionPromiseRef = 0
           => UNCHANGED << pc, closeRequested >> ]_vars

\* endInterview ran from the End Interview button and again from the
\* unmount cleanup, in an interview whose session had opened and had
\* received a message
C17_Witness ==
  /\ ~mounted /\ interviewState = "finished"
  /\ AudioReleased /\ sessionPromiseRef = 0
  /\ \E a \in Attempts : outputCtx[a] = "closed" /\ pc[a] = "closed"
  /\ delivered > 0 /\ decoding = <<>>

\* ------------------------------------------------------------------ C18
\* C18: every playback source added to ActiveSourceSet is removed from it
\* exactly once, by its 'ended' event or by a forced stop, and none is added
\* after the teardown of its session.  Stated of the steps: a source that
\* is added belongs to an output context that has not been closed (a source
\* of a closed context never plays, so its 'ended' event never removes it),
\* and a source that leaves the set has ended or been stopped in that step.
C18_RemovedExactlyOnce ==
  [][ /\ \A s \in sources' \ sources :
           s.id \in sourcesRef' => outputCtx[s.ctx] = "running"
      /\ \A id \in sourcesRef \ sourcesRef' :
           \E s \in sources \ sources' : s.id = id ]_vars

\* ------------------------------------------------------------------ C19
IsPrefix(s, t) == Len(s) <= Len(t) /\ SubSeq(t, 1, Len(s)) = s

\* C19: between one validated startInterview and the next the transcript log
\* is append-only: in every step that is not a validated startInterview the
\* log before the step is a prefix of the log after it; a transport error,
\* a remote close, endInterview and the restart to setup remove or alter no
\* entry.
C19_AppendOnly ==
  [][ attempts' = attempts => IsPrefix(transcripts, transcripts') ]_vars

\* the transcript of the interview is still in the log in the error state,
\* and after the restart to setup
C19_Witness ==
  /\ Len(transcripts) = 2
  /\ \/ interviewState = "error"
     \/ interviewState = "setup" /\ attempts > 0

\* ------------------------------------------------------------------ C20
\* C20: when a session is ended and a new one is started, the new session
\* begins with the cursor at 0, an empty ActiveSourceSet, both accumulators
\* empty and an empty transcript log, and no value of the previous session
\* is visible in the new session: while the new interview is in progress,
\* the members of ActiveSourceSet are sources of its own session.
C20_FreshSession ==
  [][ /\ attempts' # attempts
           => /\ nextStartTimeRef' = 0 /\ sourcesRef' = {}
              /\ currentInputTranscriptionRef' = <<>>
              /\ currentOutputTranscriptionRef' = <<>>
              /\ transcripts' = <<>> /\ updateQueue' = <<>>
      /\ interviewState' = "in_progress"
           => \A s \in ActiveSources' : s.att = attempts' ]_vars

\* ------------------------------------------------------------------ C21
\* the position of a literal part of the template in an instruction
IndexOf(s, x) == CHOOSE i \in 1..Len(s) : s[i] = x

\* the text an instruction carries between two of its literal parts
Between(s, x, y) == SubSeq(s, IndexOf(s, x) + 1, IndexOf(s, y) - 1)

\* C21: the systemInstruction of the session-open request contains the job
\* role and the job description exactly as the user had entered them when
\* startInterview was invoked (verbatim, untrimmed), for every pair of
\* non-blank inputs: the role stands between the first two literal parts
\* of the template and the description between the last two.
C21_InstructionVerbatim ==
  \A a \in Attempts :
    pc[a] \notin {"none", "gum", "rejected"}
      => /\ systemInstruction[a] # <<>>
         /\ Between(systemInstruction[a], InstructionHead, InstructionMiddle)
              = closure[a].role
         /\ Between(systemInstruction[a], InstructionMiddle, InstructionTail)
              = closure[a].desc

\* a request was made with a role that has leading and a description that
\* has trailing whitespace, after the user had typed another role
C21_Witness ==
  \E a \in Attempts :
    /\ systemInstruction[a] # <<>>
    /\ closure[a].role = << " ", "a" >> /\ closure[a].desc = << "a", " " >>
    /\ jobRole = << "b" >>

\* ------------------------------------------------------------------ C22
\* C22: audio segments are started on the output timeline in the order in
\* which their chunks were received: of two segments that are playing or
\* scheduled, the one whose chunk was received first has the smaller or
\* equal start, also when the later chunk's decode completed first (stated
\* for an interview in progress; a message's id is its receipt number).
C22_ReceiptOrder ==
  interviewState = "in_progress"
    => \A s, t \in ActiveSources : s.id < t.id => s.start <= t.start

\* ------------------------------------------------------------------ C23
RECURSIVE Concat(_)
Concat(fs) == IF fs = <<>> THEN <<>> ELSE Head(fs) \o Concat(Tail(fs))

\* the entry the first setTranscripts call of a turn-complete marker
\* appends, for the accumulator contents inAcc and outAcc
FirstFlushed(inAcc, outAcc) ==
  IF Trim(inAcc) # <<>> THEN [speaker |-> "user", text |-> Trim(inAcc)]
  ELSE [speaker |-> "model", text |-> Trim(outAcc)]

\* C23: at every point the user accumulator is the concatenation, in
\* arrival order, of the input-transcription fragments received since the
\* last turn-complete marker (or since startInterview), and the model
\* accumulator the same for the output-transcription fragments; both are
\* empty right after a turn-complete marker, and a fragment carried by the
\* message of the marker is part of that turn's flush: it counts for which
\* entries are appended, and it is in the text of an entry the step itself
\* adds to the log.
C23_AccumulatorsTrack ==
  [][ /\ currentInputTranscriptionRef' = Concat(inputFragments')
      /\ currentOutputTranscriptionRef' = Concat(outputFragments')
      /\ \A a \in Attempts, m \in Messages :
           m.turnComplete /\ mounted /\ OnMessage(a, m)
             => LET inAll  == Concat(inputFragments) \o m.inp
                    outAll == Concat(outputFragments) \o m.out
                IN  /\ currentInputTranscriptionRef' = <<>>
                    /\ currentOutputTranscriptionRef' = <<>>
                    /\ Speakers(PendingLog') =
                         Speakers(PendingLog)
                         \o ExpectedSpeakers(inAll, outAll)
                    /\ transcripts' # transcripts
                         => transcripts' =
                              Append(transcripts, FirstFlushed(inAll, outAll))
    ]_vars

\* after a turn was flushed, two fragments of the next turn have arrived
\* and the user accumulator holds them in their order of arrival
C23_Witness ==
  /\ Len(transcripts) >= 1
  /\ inputFragments = << << " " >>, << "a" >> >>
  /\ currentInputTranscriptionRef = << " ", "a" >>
  /\ outputFragments # <<>>

\* ------------------------------------------------------------------ C24
\* C24 as stated: interviewState does not become in_progress for an attempt
\* until the microphone has been granted, so the attempt whose getUserMedia
\* rejects was not in the in_progress state.
C24_NotInProgressBeforeGrant ==
  [][ \A a \in Attempts :
        pc[a] = "gum" /\ pc'[a] = "rejected" /\ a = attempts
          => interviewState # "in_progress" ]_vars

\* C24 as amended: a device-access failure is surfaced during session setup
\* and never mid-session.  interviewState becomes in_progress when
\* startInterview passes validation, before the microphone is requested;
\* when getUserMedia rejects, no connection has been requested and no audio
\* context or capture processor exists for the attempt, and the (mounted)
\* controller is in the error state after that step; an attempt whose
\* connection was requested never fails with the device-access error.
C24_FailureBeforeSession ==
  [][ \A a \in Attempts :
        /\ attempts' = a /\ attempts # a
             => interviewState' = "in_progress" /\ pc'[a] = "gum"
        /\ pc'[a] = "rejected" /\ pc[a] # "rejected"
             => /\ pc[a] = "gum"
                /\ systemInstruction[a] = <<>>
                /\ micStream[a] = "none" /\ inputCtx[a] = "none"
                /\ outputCtx[a] = "none" /\ processor[a] = "none"
                /\ mounted => interviewState' = "error"
        /\ systemInstruction[a] # <<>> => pc'[a] # "rejected" ]_vars

\* the microphone was denied to the second interview, after the session of
\* the first one had opened and was closed
C24_Witness ==
  /\ pc[1] = "closed" /\ inputCtx[1] = "closed"
  /\ pc[2] = "rejected"
  /\ mounted /\ interviewState = "error" /\ error = "mic"

\* ------------------------------------------------------------------ C25
\* C25: if decoding one inbound audio chunk fails, the failure is confined
\* to that chunk.  The step of the failure leaves interviewState, the error
\* message, the session and its handle, the audio contexts, the cursor and
\* ActiveSourceSet as they were; the state stays consistent (the failed
\* chunk is not in the set, every member of the set is a started source
\* that ends at or before the cursor); and a chunk whose decode completes
\* after a failure is started at the cursor, advances the cursor by its
\* duration and is added to the set (unless its own message carries the
\* interruption marker).
C25_DecodeFailureConfined ==
  [][ /\ failedChunks' # failedChunks
           => UNCHANGED << interviewState, error, pc, closeRequested,
                           sessionPromiseRef, deviceVars, nextStartTimeRef,
                           sourcesRef, sources >>
      /\ failedChunks' \cap sourcesRef' = {}
      /\ \A id \in sourcesRef' :
           \E s \in sources' :
             s.id = id /\ s.start + s.dur <= nextStartTimeRef'
      /\ \A i \in DOMAIN decoding :
           failedChunks # {} /\ ~decoding[i].intr /\ DecodeDone(i)
             => /\ decoding[i].id \in sourcesRef'
                /\ nextStartTimeRef' = nextStartTimeRef + decoding[i].dur
                /\ \E s \in sources' :
                     s.id = decoding[i].id /\ s.start = nextStartTimeRef
    ]_vars

\* the decode of a chunk failed, and a chunk received after it is playing
\* in the interview, which is still in progress with its session open
C25_Witness ==
  /\ interviewState = "in_progress"
  /\ failedChunks # {}
  /\ \E a \in Attempts : pc[a] = "open" /\ outputCtx[a] = "running"
  /\ \E s \in ActiveSources : \A f \in failedChunks : f < s.id

\* ------------------------------------------------------------------ C26
\* C26: whenever interviewState is setup, the transcript log is empty, in
\* the initial state and after every restart from finished or error
\* (stated for the states in which no start sequence or session of an
\* earlier interview is still pending or open, so that what the log holds is
\* what the restart left in it).
C26_SetupHasNoTranscript ==
  /\ interviewState = "setup"
  /\ \A a \in Attempts : pc[a] \notin {"gum", "connecting", "open"}
  => transcripts = <<>>

\* ------------------------------------------------------------------ C27
\* C27: the cursor never decreases except when it is reset to 0 by the
\* interruption handler or by startInterview, and nothing writes it but
\* the scheduling of an audio chunk (at its receipt and at the completion
\* of its decode), the interruption handler and startInterview:
\* transcription fragments, turn-complete markers, onerror, onclose, the
\* other steps of a start sequence, restart and endInterview leave it
\* unchanged.
C27_CursorFrame ==
  [][ /\ nextStartTimeRef' < nextStartTimeRef
           => /\ nextStartTimeRef' = 0
              /\ attempts' # attempts \/ InterruptionHandled
      /\ nextStartTimeRef' # nextStartTimeRef
           => \/ attempts' # attempts
              \/ decoding' # decoding
              \/ InterruptionHandled
      /\ \/ pc' # pc /\ attempts' = attempts
         \/ interviewState' # interviewState /\ attempts' = attempts
         \/ currentInputTranscriptionRef' # currentInputTranscriptionRef
              /\ attempts' = attempts
         \/ transcripts' # transcripts \/ updateQueue' # updateQueue
         => \/ nextStartTimeRef' = nextStartTimeRef
            \/ attempts' # attempts ]_vars

\* an interview whose audio had advanced the cursor and in which a fragment
\* was received has ended, and the controller is back in setup with the
\* cursor where the scheduling left it
C27_Witness ==
  /\ interviewState = "setup" /\ attempts = 1
  /\ nextStartTimeRef = 2
  /\ currentInputTranscriptionRef # <<>>
  /\ sourcesRef = {}

\* ------------------------------------------------------------------ C28
\* C28: when the session is closed (onclose) while the controller is
\* in_progress, capture and playback are torn down (the processor is
\* disconnected, both contexts are closed, every member of ActiveSourceSet
\* is stopped, the refs are null and the set is empty), and interviewState,
\* the error message, the transcript log and the session handle are left
\* unchanged; the controller then leaves in_progress only through
\* endInterview or onerror.
C28_OnCloseFrame ==
  [][ /\ \A a \in Attempts :
           pc'[a] = "closed" /\ pc[a] # "closed"
             => /\ UNCHANGED << interviewState, error, transcripts,
                                updateQueue, sessionPromiseRef >>
                /\ AudioReleased'
                /\ processor'[a] # "connected"
                /\ inputCtx'[a] # "running" /\ outputCtx'[a] # "running"
                /\ ActiveSources \cap sources' = {}
      /\ /\ interviewState = "in_progress" /\ interviewState' # "in_progress"
         /\ \E a \in Attempts : pc[a] = "closed"
         => \/ interviewState' = "finished" /\ sessionPromiseRef' = 0
            \/ interviewState' = "error" /\ error' = "session" ]_vars

\* the service closed the session of an interview in which a turn was
\* transcribed and audio was scheduled: the interview is still in progress,
\* the handle still holds the closed session and the log its entry
C28_Witness ==
  /\ interviewState = "in_progress" /\ mounted
  /\ \E a \in Attempts :
       /\ pc[a] = "closed" /\ sessionPromiseRef = a
       /\ outputCtx[a] = "closed" /\ processor[a] = "disconnected"
  /\ Len(transcripts) >= 1
  /\ nextStartTimeRef > 0
  /\ AudioReleased /\ sources = {}

\* ------------------------------------------------------------------ C29
\* C29: the 'user is talking' indicator is false whenever interviewState is
\* not in_progress, and it is false at the moment a new session enters
\* in_progress, for every way the previous session ended (endInterview,
\* transport error, microphone failure).  Stated of the steps: the indicator
\* is false after every step that leaves in_progress and after the step
\* that enters it (that no event of an ended session sets it afterwards is
\* part of C10).
C29_TalkingOnlyInProgress ==
  [][ /\ interviewState = "in_progress" /\ interviewState' # "in_progress"
           => ~isTalking'
      /\ attempts' # attempts => ~isTalking' ]_vars

\* ------------------------------------------------------------------ C30
\* what the runtime brings about without the service or the user deciding
\* it: the getUserMedia promise settles, a connection attempt opens or
\* fails, and a close that was requested, or that follows a transport
\* error, completes
GetUserMediaSettles(a) == GetUserMediaResolve(a) \/ GetUserMediaReject(a)
ConnectSettles(a) == pc[a] = "connecting" /\ (OnOpen(a) \/ OnError(a))
CloseCompletes(a) == pc[a] \in {"closing", "failed"} /\ OnClose(a)

\* one interview, from setup to its end or to the unmount of the component,
\* with the capture callback and whole turns as messages
NextUnmount ==
  \/ \E r \in Fields : SetJobRole(r)
  \/ \E d \in Fields : SetJobDescription(d)
  \/ StartInterviewInvalid
  \/ StartInterview
  \/ EndInterview
  \/ Unmount
  \/ \E a \in Attempts : GetUserMediaResolve(a)
  \/ \E a \in Attempts : GetUserMediaReject(a)
  \/ \E a \in Attempts : OnOpen(a)
  \/ \E a \in Attempts : OnError(a)
  \/ \E a \in Attempts : OnClose(a)
  \/ \E a \in Attempts : OnAudioProcess(a)
  \/ Render
  \/ \E a \in Attempts, m \in WholeMessages \cap TextMessages :
       delivered < MaxMessages /\ OnMessage(a, m)

\* SpecUnmountFair: that interview with these steps eventually taken.  That
\* the service closes an open session of its own accord, or that the
\* session fails, is not assumed
SpecUnmountFair ==
  /\ Init /\ [][NextUnmount]_vars
  /\ \A a \in Attempts :
       /\ WF_vars(GetUserMediaSettles(a))
       /\ WF_vars(ConnectSettles(a))
       /\ WF_vars(CloseCompletes(a))

\* no streaming session of the component is live, and no capture processor
\* or audio context of it remains
Released ==
  \A a \in Attempts :
    /\ pc[a] # "open"
    /\ processor[a] # "connected"
    /\ inputCtx[a] # "running" /\ outputCtx[a] # "running"

\* C30: after the Interview component was unmounted (the user switched to
\* another tab; the cleanup runs endInterview), eventually no streaming
\* session of the component is live and no capture processor or audio
\* context of it remains, and it stays so, at whichever point of the start
\* sequence the unmount happened.
C30_UnmountReleases == <>[](mounted \/ Released)

\* ========================================================= the other tools
\* App renders one of Interview, ResumeHelper, CreativeSuite and Chatbot, and
\* CreativeSuite one of its three tools, so at most one tool component is
\* mounted and its state is created afresh whenever it is mounted.  The state
\* setters of an unmounted component have no effect, so a call that is still
\* pending when its component is unmounted is dropped.

MaxSends == 1         \* messages sent to one Chatbot instance
MaxStreamChunks == 2  \* chunks of one response stream
MaxGrounding == 2     \* grounding chunks inside one stream chunk
MaxDialogs == 1       \* openSelectKey() promises pending at once

Tools == {"resume", "imageGen", "imageEdit", "videoGen", "chat"}
CreativeTools == {"imageGen", "imageEdit", "videoGen"}

\* what the user can type into a text field of a tool
TextInputs == { <<>>, <<" ">>, <<"q">> }

\* JavaScript truthiness of a string or undefined, and the || operator
Undefined == "undefined"
Truthy(x) == x \notin {Undefined, ""}
Or(a, b) == IF Truthy(a) THEN a ELSE b

\* a grounding chunk c, given by c.web?.title, c.web?.uri, c.maps?.title and
\* c.maps?.uri
GroundingChunk(wt, wu, mt, mu) ==
  [webTitle |-> wt, webUri |-> wu, mapsTitle |-> mt, mapsUri |-> mu]

GroundingChunks ==
  { GroundingChunk("T", "u1", Undefined, Undefined),
    GroundingChunk(Undefined, Undefined, "M", "u1"),
    GroundingChunk(Undefined, "", Undefined, "u2"),
    GroundingChunk("T", Undefined, Undefined, Undefined) }

RECURSIVE SeqsUpTo(_, _)
SeqsUpTo(S, n) ==
  IF n = 0 THEN { <<>> }
  ELSE LET shorter == SeqsUpTo(S, n - 1)
       IN  shorter \cup { Append(q, x) : q \in shorter, x \in S }

\* chunk.candidates?.[0]?.groundingMetadata?.groundingChunks of a stream
\* chunk: undefined (has = FALSE) or a list
StreamChunks ==
  { [has |-> FALSE, list |-> <<>>] } \cup
  { [has |-> TRUE, list |-> l] : l \in SeqsUpTo(GroundingChunks, MaxGrounding) }
TextChunks == { [has |-> FALSE, list |-> <<>>] }

\* the map callback of lines 68-71
GroundingSource(c) ==
  [title |-> Or(Or(c.webTitle, c.mapsTitle), "Source"),
   uri |-> Or(c.webUri, c.mapsUri)]

RECURSIVE MapSources(_)
MapSources(l) ==
  IF l = <<>> THEN <<>>
  ELSE << GroundingSource(Head(l)) >> \o MapSources(Tail(l))

\* the filter of line 72: every element is tested against allSources as it
\* is before the push of line 75
RECURSIVE FilterSources(_, _)
FilterSources(l, all) ==
  IF l = <<>> THEN <<>>
  ELSE LET s == Head(l)
           keep == Truthy(s.uri) /\ ~ \E i \in 1..Len(all) : all[i].uri = s.uri
       IN  (IF keep THEN << s >> ELSE <<>>) \o FilterSources(Tail(l), all)

\* lines 67-76
PushSources(ch, all) ==
  IF ch.has THEN all \o FilterSources(MapSources(ch.list), all) ELSE all

ChatMessage(sender, text, srcs) ==
  [sender |-> sender, text |-> text, sources |-> srcs]
Greeting == ChatMessage("bot", <<"h">>, <<>>)
ErrorText == <<"e">>

\* prev.map((msg, index) => index === prev.length - 1 ? f(msg) : msg)
ReplaceLastText(log, text) ==
  [i \in 1..Len(log) |->
     IF i = Len(log) THEN [log[i] EXCEPT !.text = text] ELSE log[i]]
ReplaceLast(log, text, srcs) ==
  [i \in 1..Len(log) |->
     IF i = Len(log) THEN [log[i] EXCEPT !.text = text, !.sources = srcs]
     ELSE log[i]]

interviewRest == << reactVars, fieldVars, accVars, deviceVars, playVars,
                    captureVars, auxVars, sessionPromiseRef, envVars,
                    endedAttempts >>

\* the required input of the mounted tool's request handler is absent
MissingInput ==
  CASE activeTool = "chat" -> input = <<>>
    [] activeTool = "resume" -> resumeText = <<>> \/ jdText = <<>>
    [] activeTool = "imageGen" -> prompt = <<>>
    [] activeTool = "imageEdit" -> prompt = <<>> \/ ~imageFile
    [] activeTool = "videoGen" -> prompt = <<>> /\ ~startImageFile
    [] OTHER -> FALSE

Ran == [parity |-> 1 - lastRun.parity, missing |-> MissingInput]

\* useState initial values, and the mount effect of Chatbot (lines 24-30)
MountTool(t) ==
  /\ activeTool' = t
  /\ isLoading' = FALSE
  /\ chat' = (t = "chat")
  /\ messages' = IF t = "chat" THEN << Greeting >> ELSE <<>>
  /\ input' = <<>>
  /\ resumeText' = <<>>
  /\ jdText' = <<>>
  /\ analysis' = "null"
  /\ prompt' = <<>>
  /\ imageFile' = FALSE
  /\ startImageFile' = FALSE
  /\ resultUrl' = ""
  /\ toolError' = ""
  /\ apiKeySelected' = FALSE
  /\ selecting' = 0
  /\ keyChosen' = FALSE
  /\ call' = "idle"
  /\ outcome' = "none"
  /\ fullText' = <<>>
  /\ allSources' = <<>>
  /\ lastRun' = [parity |-> 0, missing |-> FALSE]

\* a tab of the header or of CreativeSuite is selected: the component shown
\* is unmounted and tool t is mounted; VideoGenerator's mount effect calls
\* window.aistudio?.hasSelectedApiKey() (lines 143-145), which makes no call
\* when window.aistudio is undefined.  Leaving the interview tab is modelled
\* here for an Interview that has not started an interview.
SelectTool(t) ==
  /\ t # activeTool
  /\ IF activeTool = "none"
     THEN attempts = 0 /\ mounted /\ mounted' = FALSE
     ELSE UNCHANGED mounted
  /\ MountTool(t)
  /\ keyCheck' \in (IF t = "videoGen" THEN {"pending", "none"} ELSE {"none"})
  /\ UNCHANGED interviewRest

\* ------------------------------------------------------------ tool fields
\* Chatbot input (lines 144-152), disabled while loading
SetInput(v) ==
  /\ activeTool = "chat" /\ ~isLoading
  /\ input' = v
  /\ UNCHANGED << interviewRest, mounted, activeTool, isLoading, chat,
                  resumeText, jdText, prompt, imageFile, startImageFile,
                  toolOutputs, keyVars, callVars, lastRun >>

SetResumeText(v) ==
  /\ activeTool = "resume"
  /\ resumeText' = v
  /\ UNCHANGED << interviewRest, mounted, activeTool, isLoading, chat,
                  input, jdText, prompt, imageFile, startImageFile,
                  toolOutputs, keyVars, callVars, lastRun >>

SetJdText(v) ==
  /\ activeTool = "resume"
  /\ jdText' = v
  /\ UNCHANGED << interviewRest, mounted, activeTool, isLoading, chat,
                  input, resumeText, prompt, imageFile, startImageFile,
                  toolOutputs, keyVars, callVars, lastRun >>

\* the prompt textarea: ImageEditor disables it until a file is selected,
\* VideoGenerator renders it only when apiKeySelected
SetPrompt(v) ==
  /\ activeTool \in CreativeTools
  /\ activeTool = "imageEdit" => imageFile
  /\ activeTool = "videoGen" => apiKeySelected
  /\ prompt' = v
  /\ UNCHANGED << interviewRest, mounted, activeTool, isLoading, chat,
                  input, resumeText, jdText, imageFile, startImageFile,
                  toolOutputs, keyVars, callVars, lastRun >>

\* handleFileChange with a file (ImageEditor lines 75-82, VideoGenerator
\* lines 152-157)
HandleFileChange ==
  /\ \/ /\ activeTool = "imageEdit"
        /\ imageFile' = TRUE
        /\ resultUrl' = ""
        /\ UNCHANGED startImageFile
     \/ /\ activeTool = "videoGen" /\ apiKeySelected
        /\ startImageFile' = TRUE
        /\ UNCHANGED << imageFile, resultUrl >>
  /\ UNCHANGED << interviewRest, mounted, activeTool, isLoading, chat,
                  input, resumeText, jdText, prompt, messages, analysis,
                  toolError, keyVars, callVars, lastRun >>

\* ------------------------------------------------------- request handlers
\* A handler runs when the control that invokes it is rendered and the tool
\* is not loading (every control that invokes one is disabled or guarded
\* while isLoading); it may be invoked with any content of the fields.

\* ResumeHelper.handleAnalyze up to its await (lines 53-61)
HandleAnalyze ==
  /\ activeTool = "resume" /\ ~isLoading
  /\ lastRun' = Ran
  /\ IF Trim(resumeText) = <<>> \/ Trim(jdText) = <<>>
     THEN /\ analysis' = "inputError"
          /\ UNCHANGED << isLoading, call >>
     ELSE /\ isLoading' = TRUE
          /\ analysis' = "null"
          /\ call' = "awaiting"
  /\ UNCHANGED << interviewRest, mounted, activeTool, chat, toolFields,
                  messages, resultUrl, toolError, keyVars, outcome, fullText,
                  allSources >>

\* handleSubmit of ImageGenerator (lines 16-23), ImageEditor (lines 84-91)
\* and VideoGenerator (lines 159-166) up to the await
HandleSubmit ==
  /\ activeTool \in CreativeTools /\ ~isLoading
  /\ activeTool = "videoGen" => apiKeySelected
  /\ lastRun' = Ran
  /\ IF CASE activeTool = "imageGen" -> prompt = <<>>
          [] activeTool = "imageEdit" -> prompt = <<>> \/ ~imageFile
          [] OTHER -> prompt = <<>> /\ ~startImageFile
     THEN UNCHANGED << isLoading, resultUrl, toolError, call >>
     ELSE /\ isLoading' = TRUE
          /\ resultUrl' = ""
          /\ toolError' = ""
          /\ call' = "awaiting"
  /\ UNCHANGED << interviewRest, mounted, activeTool, chat, toolFields,
                  messages, analysis, keyVars, outcome, fullText,
                  allSources >>

\* Chatbot.sendMessage up to its first await (lines 47-59)
SendMessage ==
  /\ activeTool = "chat" /\ ~isLoading
  /\ lastRun' = Ran
  /\ IF Trim(input) = <<>> \/ ~chat
     THEN UNCHANGED << messages, input, isLoading, call >>
     ELSE /\ messages' = messages \o << ChatMessage("user", input, <<>>),
                                        ChatMessage("bot", <<>>, <<>>) >>
          /\ input' = <<>>
          /\ isLoading' = TRUE
          /\ call' = "awaiting"
  /\ UNCHANGED << interviewRest, mounted, activeTool, chat, resumeText,
                  jdText, prompt, imageFile, startImageFile, analysis,
                  resultUrl, toolError, keyVars, outcome, fullText,
                  allSources >>

\* ------------------------------------------------------------ the service
\* what a call of the mounted tool can resolve with
Resolutions ==
  CASE activeTool = "resume" -> {"json", "text"}
    [] activeTool = "chat" -> {"stream"}
    [] OTHER -> {"url"}
\* what it can reject with: an Error whose message contains 'Requested
\* entity was not found', or anything else
Rejections == {"notFound", "other"}

ServiceResolves(o) ==
  /\ call = "awaiting"
  /\ call' = "resolved"
  /\ outcome' = o
  /\ UNCHANGED << interviewRest, mounted, activeTool, isLoading, chat,
                  toolFields, toolOutputs, keyVars, fullText, allSources,
                  lastRun >>

ServiceRejects(o) ==
  /\ call = "awaiting"
  /\ call' = "rejected"
  /\ outcome' = o
  /\ UNCHANGED << interviewRest, mounted, activeTool, isLoading, chat,
                  toolFields, toolOutputs, keyVars, fullText, allSources,
                  lastRun >>

\* --------------------------------------------------- handler continuations
\* handleAnalyze after the await (lines 62-69); JSON.parse throws on a
\* result that is not JSON
HandleAnalyzeSettled ==
  /\ activeTool = "resume"
  /\ call \in {"resolved", "rejected"}
  /\ analysis' = IF call = "resolved" /\ outcome = "json"
                 THEN "result" ELSE "parseError"
  /\ isLoading' = FALSE
  /\ call' = "idle"
  /\ outcome' = "none"
  /\ UNCHANGED << interviewRest, mounted, activeTool, chat, toolFields,
                  messages, resultUrl, toolError, keyVars, fullText,
                  allSources, lastRun >>

\* mutant: setIsLoading(false) sits at the end of the try block only
HandleSubmitSettledNoFinally ==
  /\ activeTool \in CreativeTools
  /\ call \in {"resolved", "rejected"}
  /\ IF call = "resolved"
     THEN /\ resultUrl' = "url"
          /\ isLoading' = FALSE
          /\ UNCHANGED << toolError, apiKeySelected, keyChosen >>
     ELSE /\ toolError' = outcome
          /\ UNCHANGED << resultUrl, isLoading, apiKeySelected, keyChosen >>
  /\ call' = "idle"
  /\ outcome' = "none"
  /\ UNCHANGED << interviewRest, mounted, activeTool, chat, toolFields,
                  messages, analysis, keyCheck, selecting, fullText,
                  allSources, lastRun >>

\* handleSubmit after the await: ImageGenerator lines 24-29, ImageEditor
\* lines 92-97, VideoGenerator lines 167-177
HandleSubmitSettled ==
  /\ activeTool \in CreativeTools
  /\ call \in {"resolved", "rejected"}
  /\ IF call = "resolved"
     THEN /\ resultUrl' = "url"
          /\ UNCHANGED << toolError, apiKeySelected, keyChosen >>
     ELSE IF activeTool = "videoGen" /\ outcome = "notFound"
     THEN /\ toolError' = "invalidKey"
          /\ apiKeySelected' = FALSE
          /\ keyChosen' = FALSE
          /\ UNCHANGED resultUrl
     ELSE /\ toolError' = outcome
          /\ UNCHANGED << resultUrl, apiKeySelected, keyChosen >>
  /\ isLoading' = FALSE
  /\ call' = "idle"
  /\ outcome' = "none"
  /\ UNCHANGED << interviewRest, mounted, activeTool, chat, toolFields,
                  messages, analysis, keyCheck, selecting, fullText,
                  allSources, lastRun >>

\* sendMessage enters the loop over the stream (lines 59-63)
StreamOpen ==
  /\ activeTool = "chat"
  /\ call = "resolved"
  /\ call' = "streaming"
  /\ outcome' = "none"
  /\ fullText' = <<>>
  /\ allSources' = <<>>
  /\ UNCHANGED << interviewRest, mounted, activeTool, isLoading, chat,
                  toolFields, toolOutputs, keyVars, lastRun >>

\* the stream yields a chunk and the loop body runs (lines 63-83)
StreamChunk(ch) ==
  /\ activeTool = "chat"
  /\ call = "streaming"
  /\ fullText' = fullText \o << "a" >>
  /\ allSources' = PushSources(ch, allSources)
  /\ messages' = ReplaceLast(messages, fullText', allSources')
  /\ UNCHANGED << interviewRest, mounted, activeTool, isLoading, chat,
                  toolFields, analysis, resultUrl, toolError, keyVars, call,
                  outcome, lastRun >>

\* the stream is exhausted
StreamEnds ==
  /\ activeTool = "chat"
  /\ call = "streaming"
  /\ call' = "ended"
  /\ UNCHANGED << interviewRest, mounted, activeTool, isLoading, chat,
                  toolFields, toolOutputs, keyVars, outcome, fullText,
                  allSources, lastRun >>

\* the stream throws
StreamFails ==
  /\ activeTool = "chat"
  /\ call = "streaming"
  /\ call' = "rejected"
  /\ outcome' = "other"
  /\ UNCHANGED << interviewRest, mounted, activeTool, isLoading, chat,
                  toolFields, toolOutputs, keyVars, fullText, allSources,
                  lastRun >>

\* sendMessage leaves the try block (lines 84-93)
SendMessageSettled ==
  /\ activeTool = "chat"
  /\ call \in {"ended", "rejected"}
  /\ messages' = IF call = "rejected"
                 THEN ReplaceLastText(messages, ErrorText) ELSE messages
  /\ isLoading' = FALSE
  /\ call' = "idle"
  /\ outcome' = "none"
  /\ UNCHANGED << interviewRest, mounted, activeTool, chat, toolFields,
                  analysis, resultUrl, toolError, keyVars, fullText,
                  allSources, lastRun >>

\* ------------------------------------------------------- the API key gate
\* the mount-time promise resolves and setApiKeySelected receives its value
\* (line 144)
KeyCheckResolves(b) ==
  /\ activeTool = "videoGen"
  /\ keyCheck = "pending"
  /\ keyCheck' = "done"
  /\ apiKeySelected' = b
  /\ UNCHANGED << interviewRest, mounted, activeTool, isLoading, chat,
                  toolFields, toolOutputs, selecting, keyChosen, callVars,
                  lastRun >>

\* the Select API Key button, rendered while apiKeySelected is false (lines
\* 147-148, 186)
HandleSelectKey ==
  /\ activeTool = "videoGen"
  /\ ~apiKeySelected
  /\ selecting' = selecting + 1
  /\ UNCHANGED << interviewRest, mounted, activeTool, isLoading, chat,
                  toolFields, toolOutputs, apiKeySelected, keyCheck,
                  keyChosen, callVars, lastRun >>

\* openSelectKey() resolves and handleSelectKey completes (line 149)
SelectKeyDone ==
  /\ activeTool = "videoGen"
  /\ selecting > 0
  /\ selecting' = selecting - 1
  /\ apiKeySelected' = TRUE
  /\ keyChosen' = TRUE
  /\ UNCHANGED << interviewRest, mounted, activeTool, isLoading, chat,
                  toolFields, toolOutputs, keyCheck, callVars, lastRun >>

\* openSelectKey() rejects: handleSelectKey ends at the await
SelectKeyFails ==
  /\ activeTool = "videoGen"
  /\ selecting > 0
  /\ selecting' = selecting - 1
  /\ UNCHANGED << interviewRest, mounted, activeTool, isLoading, chat,
                  toolFields, toolOutputs, apiKeySelected, keyCheck,
                  keyChosen, callVars, lastRun >>

\* ---------------------------------------------------------- specifications
\* the Chatbot with grounded streams
NextChat ==
  \/ \E t \in {"chat", "resume"} : SelectTool(t)
  \/ \E v \in TextInputs : SetInput(v)
  \/ Len(messages) < 1 + 2 * MaxSends /\ SendMessage
  \/ \E o \in Resolutions : ServiceResolves(o)
  \/ \E o \in Rejections : ServiceRejects(o)
  \/ StreamOpen
  \/ \E ch \in StreamChunks :
       Len(fullText) < MaxStreamChunks /\ StreamChunk(ch)
  \/ StreamEnds
  \/ StreamFails
  \/ SendMessageSettled

SpecChat == Init /\ [][NextChat]_vars

\* the VideoGenerator and its API key gate
NextVideo ==
  \/ \E t \in {"videoGen", "imageGen"} : SelectTool(t)
  \/ \E v \in TextInputs : SetPrompt(v)
  \/ HandleFileChange
  \/ \E b \in BOOLEAN : KeyCheckResolves(b)
  \/ selecting < MaxDialogs /\ HandleSelectKey
  \/ SelectKeyDone
  \/ SelectKeyFails
  \/ HandleSubmit
  \/ \E o \in Resolutions : ServiceResolves(o)
  \/ \E o \in Rejections : ServiceRejects(o)
  \/ HandleSubmitSettled

SpecVideo == Init /\ [][NextVideo]_vars

\* every tool with its request handler; the chat streams carry text only
NextTools ==
  \/ \E t \in Tools : SelectTool(t)
  \/ \E v \in TextInputs : SetInput(v)
  \/ \E v \in TextInputs : SetResumeText(v)
  \/ \E v \in TextInputs : SetJdText(v)
  \/ \E v \in TextInputs : SetPrompt(v)
  \/ HandleFileChange
  \/ \E b \in BOOLEAN : KeyCheckResolves(b)
  \/ selecting < MaxDialogs /\ HandleSelectKey
  \/ SelectKeyDone
  \/ SelectKeyFails
  \/ HandleAnalyze
  \/ HandleSubmit
  \/ Len(messages) < 1 + 2 * MaxSends /\ SendMessage
  \/ \E o \in Resolutions : ServiceResolves(o)
  \/ \E o \in Rejections : ServiceRejects(o)
  \/ HandleAnalyzeSettled
  \/ HandleSubmitSettled
  \/ StreamOpen
  \/ \E ch \in TextChunks :
       Len(fullText) < MaxStreamChunks /\ StreamChunk(ch)
  \/ StreamEnds
  \/ StreamFails
  \/ SendMessageSettled

\* a handler whose awaited promise has settled is resumed
SpecToolsFair ==
  /\ Init
  /\ [][NextTools]_vars
  /\ WF_vars(HandleAnalyzeSettled)
  /\ WF_vars(HandleSubmitSettled)
  /\ WF_vars(SendMessageSettled)

\* ------------------------------------------------------------------ C31
\* C31: the sources list of every bot message of the Chatbot holds no two
\* entries with the same uri and no entry without a uri, whatever the stream
\* chunks and the grounding chunks inside a stream chunk are.
C31_SourcesDistinct ==
  \A i \in 1..Len(messages) :
    messages[i].sender = "bot" =>
      LET s == messages[i].sources
      IN  /\ \A j \in 1..Len(s) : Truthy(s[j].uri)
          /\ \A j, k \in 1..Len(s) : j < k => s[j].uri # s[k].uri

\* the part of C31 that holds: every entry has a uri
C31_SourcesHaveUri ==
  \A i \in 1..Len(messages) :
    \A j \in 1..Len(messages[i].sources) : Truthy(messages[i].sources[j].uri)

\* the part of C31 that holds: a stream chunk adds no source whose uri an
\* earlier stream chunk has contributed
C31_DistinctAcrossChunks ==
  [][ \A j \in 1..Len(allSources') :
        j > Len(allSources) =>
          \A i \in 1..Len(allSources) : allSources'[j].uri # allSources[i].uri
    ]_vars

\* ------------------------------------------------------------------ C32
\* C32: in the VideoGenerator, from the completion of handleSelectKey until
\* a generation fails with a message containing 'Requested entity was not
\* found', apiKeySelected is true; the resolution of the mount-time
\* hasSelectedApiKey() promise does not set it back to false.
C32_KeyStaysSelected == keyChosen => apiKeySelected

\* what holds of C32: while a completed handleSelectKey stands,
\* apiKeySelected is taken back by the mount-time resolution only
C32_OnlyKeyCheckReverts ==
  [][ keyChosen /\ keyChosen' /\ apiKeySelected /\ ~apiKeySelected'
        => keyCheck = "pending" /\ keyCheck' = "done" ]_vars

\* ------------------------------------------------------------------ C33
\* the awaited service call of the running handler, or the stream of the
\* Chatbot, has settled and the handler has not been resumed yet
Settled ==
  \/ call \in {"rejected", "ended"}
  \/ call = "resolved" /\ activeTool # "chat"

\* C33: for every request handler that sets isLoading (sendMessage,
\* handleAnalyze, the handleSubmit of the image and video tools), once the
\* awaited call or stream has settled, by success or by failure, isLoading
\* eventually becomes false; and a handler invoked with its required input
\* missing returns without setting isLoading and without calling the
\* service.
C33_LoadingEnds ==
  /\ Settled ~> ~isLoading
  /\ [][ lastRun' # lastRun /\ lastRun'.missing
           => ~isLoading' /\ call = "idle" /\ call' = "idle" ]_vars

\* a generation has failed and isLoading is false again, and the handler,
\* invoked afterwards with the prompt empty, has left it so
C33_Witness ==
  /\ activeTool = "imageGen"
  /\ toolError = "other"
  /\ prompt = <<>>
  /\ lastRun.missing
  /\ ~isLoading
  /\ call = "idle"

=============================================================================
